---- MODULE Spec2Model ----
(***************************************************************************)
(* The chat-to-speech pipeline of xiaozhi-douyin-live (src/utils/common.py)*)
(* as a state machine: the content filter, the LRU audio cache, the        *)
(* submission throttle, the bounded-concurrency task manager with its      *)
(* thread pool and future callbacks, and the four message stores.          *)
(*                                                                         *)
(* Text is a sequence of characters, each written as a string: an ASCII    *)
(* character as itself, any other one by a name in angle brackets          *)
(* ("<ha>" is U+54C8, "<fw,>" the full-width comma).  Python's None and an *)
(* empty container are both falsy and the code only ever tests them for    *)
(* truth, so both are written <<>> (audio) or None (a job's result).       *)
(***************************************************************************)
EXTENDS Integers, Sequences, FiniteSets, TLC

(***************************************************************************)
(* Bounds of the model.  The configurable sizes of the program (cache      *)
(* size 200, 3 workers, 5 records per store) are scaled down here; the     *)
(* code treats each of them as a parameter.                                *)
(***************************************************************************)
NumProducers == 2
TTS_MAX_CONCURRENT == 2
TTS_CACHE_SIZE == 1
MAX_MESSAGE_COUNT == 2
MaxAudio == 1
TicksPerSecond == 2
Horizon == 2
MaxCacheSize == 2
MaxFilterLen == 4
MaxFrames == 2

\* config.py: TTS_THROTTLE_INTERVAL = 1.0 (seconds)
TTS_THROTTLE_INTERVAL == 1

(***************************************************************************)
(* Characters and text                                                     *)
(***************************************************************************)
Whitespace == {" "}
DigitChars == {"0", "1", "2", "3", "4", "5", "6", "7", "8", "9"}
UpperLetters == <<"A", "B", "C", "D", "E", "F", "G", "H", "I", "J", "K", "L", "M",
                  "N", "O", "P", "Q", "R", "S", "T", "U", "V", "W", "X", "Y", "Z">>
LowerLetters == <<"a", "b", "c", "d", "e", "f", "g", "h", "i", "j", "k", "l", "m",
                  "n", "o", "p", "q", "r", "s", "t", "u", "v", "w", "x", "y", "z">>
UpperChars == {UpperLetters[i] : i \in 1..26}
LowerChars == {LowerLetters[i] : i \in 1..26}
CjkChars == {"<ha>", "<wan>", "<an>", "<zai>", "<jian>", "<bai>", "<hao>", "<ni>"}
AlphaChars == UpperChars \cup LowerChars \cup CjkChars
WordChars == AlphaChars \cup DigitChars \cup {"_"}

\* str.lower() on one character
LowerOf(c) ==
    IF c \in UpperChars
    THEN LowerLetters[CHOOSE i \in 1..26 : UpperLetters[i] = c]
    ELSE c

lower(s) == [i \in 1..Len(s) |-> LowerOf(s[i])]

SetMin(S) == CHOOSE x \in S : \A y \in S : x <= y
SetMax(S) == CHOOSE x \in S : \A y \in S : x >= y

\* remove the characters of `chars` from both ends of s
StripChars(s, chars) ==
    LET keep == {i \in 1..Len(s) : s[i] \notin chars}
    IN  IF keep = {} THEN <<>> ELSE SubSeq(s, SetMin(keep), SetMax(keep))

\* str.strip()
strip(s) == StripChars(s, Whitespace)

IsSubstr(sub, s) ==
    \E i \in 1..(Len(s) - Len(sub) + 1) : SubSeq(s, i, i + Len(sub) - 1) = sub

CharSet(s) == {s[i] : i \in 1..Len(s)}

\* str.isdigit() / str.isalpha(): false on the empty string
isdigit(s) == s # <<>> /\ CharSet(s) \subseteq DigitChars
isalpha(s) == s # <<>> /\ CharSet(s) \subseteq AlphaChars

\* pattern * n
RECURSIVE Repeat(_, _)
Repeat(pattern, n) == IF n <= 0 THEN <<>> ELSE pattern \o Repeat(pattern, n - 1)

\* ' '.join(s.split()): strip, and collapse every whitespace run to one space
RECURSIVE CollapseRuns(_)
CollapseRuns(s) ==
    IF s = <<>> THEN <<>>
    ELSE IF Head(s) \in Whitespace
         THEN IF Len(s) >= 2 /\ s[2] \in Whitespace
              THEN CollapseRuns(Tail(s))
              ELSE <<" ">> \o CollapseRuns(Tail(s))
         ELSE <<Head(s)>> \o CollapseRuns(Tail(s))

JoinSplit(s) == CollapseRuns(strip(s))

\* re.sub(r'\[[\u4e00-\u9fff\w]+\]', '', s): drop every "[word]" tag
TagEnd(s) ==
    \* s starts with "[": the index of the closing "]" of a tag, or 0
    LET stops == {j \in 2..Len(s) : s[j] \notin WordChars}
    IN  IF stops = {} THEN 0
        ELSE LET j == SetMin(stops)
             IN  IF j >= 3 /\ s[j] = "]" THEN j ELSE 0

RECURSIVE RemoveTags(_)
RemoveTags(s) ==
    IF s = <<>> THEN <<>>
    ELSE IF Head(s) = "[" /\ TagEnd(s) > 0
         THEN RemoveTags(SubSeq(s, TagEnd(s) + 1, Len(s)))
         ELSE <<Head(s)>> \o RemoveTags(Tail(s))

(***************************************************************************)
(* Content filter                                                          *)
(***************************************************************************)
\* The characters get_string_no_punctuation_or_emoji removes from both ends
\* (src/core/utils/util.py is not part of the sources; section 4.1 step 2).
EdgeChars == Whitespace \cup {"!", ".", ",", "<fw,>", "<fw.>", "<fw!>", "-", "~", "<emoji>"}

get_string_no_punctuation_or_emoji(s) == StripChars(s, EdgeChars)

unwanted_punctuation ==
    {"'", "\"", "<backtick>", "~", "!", "@", "#", "$", "%", "^", "&", "*", "(", ")",
     "_", "+", "=", "{", "}", "[", "]", "|", "\\", ":", ";", "<", ">", "?",
     "/", ".", ",", "<fw,>", "<fw.>", "<fw;>", "<fw:>"}

meaningless_words ==
    {<<"<e4>">>, <<"<e2>">>, <<"<en>">>, <<"<a>">>, <<"<o>">>, <<"<ei>">>, <<"<ha>">>,
     <<"<hei>">>, <<"<yi>">>, <<"<ai>">>, <<"<wo>">>, <<"u", "h">>, <<"u", "m">>,
     <<"e", "h">>, <<"a", "h">>, <<"o", "h">>}

farewell_words == {<<"<wan>", "<an>">>, <<"<zai>", "<jian>">>, <<"<bai>", "<bai>">>, <<"8", "8">>}

url_patterns ==
    {<<"h", "t", "t", "p", ":", "/", "/">>, <<"h", "t", "t", "p", "s", ":", "/", "/">>,
     <<"w", "w", "w", ".">>, <<".", "c", "o", "m">>, <<".", "c", "n">>,
     <<".", "n", "e", "t">>, <<".", "o", "r", "g">>}

\* lines 36-50: the normalisation steps
Normalize(content) ==
    JoinSplit(SelectSeq(RemoveTags(get_string_no_punctuation_or_emoji(strip(content))),
                        LAMBDA c : c \notin unwanted_punctuation))

DigitCount(s) == Cardinality({i \in 1..Len(s) : s[i] \in DigitChars})

RepeatedPattern(s) ==
    Len(s) >= 6 /\ \E pattern_len \in 1..3 :
        /\ Len(s) % pattern_len = 0
        /\ Repeat(SubSeq(s, 1, pattern_len), Len(s) \div pattern_len) = s

\* lines 52-114: the rejection rules, on the raw content and its normal form
FilterRejects(content, fc) ==
    \/ fc = <<>>
    \/ isdigit(fc)
    \/ Len(fc) < 2
    \/ Cardinality(CharSet(fc)) = 1 /\ Len(fc) > 4
    \/ lower(fc) \in meaningless_words
    \/ \E farewell \in farewell_words : IsSubstr(farewell, lower(content))
    \/ \E u \in url_patterns : IsSubstr(u, lower(fc))
    \/ Len(fc) >= 3 /\ isalpha(fc) /\ Cardinality(CharSet(lower(fc))) <= 2
    \/ RepeatedPattern(fc)
    \/ Len(fc) >= 4 /\ 2 * DigitCount(fc) > Len(fc)

\* (filtered_content, is_valid)
filter_content_for_tts(content) ==
    IF content = <<>> THEN <<<<>>, FALSE>>
    ELSE IF FilterRejects(content, Normalize(content)) THEN <<<<>>, FALSE>>
    ELSE <<Normalize(content), TRUE>>

(***************************************************************************)
(* Audio cache (class TTSCache).  The OrderedDict is a sequence of entries,*)
(* least recently used first.  The key is the MD5 digest of the trimmed,   *)
(* lower-cased text; a digest is written as the text it is the digest of.  *)
(***************************************************************************)
\* mutant of _generate_key: the text is not normalised
_generate_keyRaw(content) == content

_generate_key(content) == lower(strip(content))

None == [tts_status |-> "None"]
NoAudio == [audio_datas |-> <<>>, audio_duration |-> 0, audio_size |-> 0]

KeyIndex(c, key) ==
    IF \E i \in 1..Len(c) : c[i].key = key
    THEN CHOOSE i \in 1..Len(c) : c[i].key = key
    ELSE 0

RemoveAt(c, i) == SubSeq(c, 1, i - 1) \o SubSeq(c, i + 1, Len(c))

\* mutant of TTSCache_get: a hit does not touch the order
TTSCache_getNoTouch(c, content) ==
    LET i == KeyIndex(c, lower(strip(content)))
    IN  IF i = 0 THEN [result |-> [tts_status |-> "None"], cache |-> c]
        ELSE [result |-> [audio_datas |-> c[i].audio_datas,
                          audio_duration |-> c[i].audio_duration,
                          audio_size |-> c[i].audio_size],
              cache |-> c]

\* mutant of TTSCache_get: every lookup misses
TTSCache_getAlwaysMiss(c, content) == [result |-> None, cache |-> c]

\* TTSCache.get: [result, cache]; result is the stored triple, or None
TTSCache_get(c, content) ==
    LET i == KeyIndex(c, _generate_key(content))
    IN  IF i = 0 THEN [result |-> None, cache |-> c]
        ELSE [result |-> [audio_datas |-> c[i].audio_datas,
                          audio_duration |-> c[i].audio_duration,
                          audio_size |-> c[i].audio_size],
              cache |-> Append(RemoveAt(c, i), c[i])]

\* mutant of EvictOver: popitem() takes the newest entry
RECURSIVE EvictNewest(_, _)
EvictNewest(c, size) ==
    IF Len(c) > size THEN EvictNewest(SubSeq(c, 1, Len(c) - 1), size) ELSE c

\* popitem(last=False) while the cache is over max_size
RECURSIVE EvictOver(_, _)
EvictOver(c, max_size) ==
    IF Len(c) > max_size THEN EvictOver(Tail(c), max_size) ELSE c

(***************************************************************************)
(* Message stores (class GlobalVal) and the records put into them          *)
(***************************************************************************)
\* int(time.time() * 1000)
Millis(now) == (now * 1000) \div TicksPerSecond

\* mutants of Insert: the record goes in twice; the record goes to the back
InsertTwice(message_array, record) == <<record, record>> \o message_array
InsertAtBack(message_array, record) == Append(message_array, record)

\* mutant of Insert: the record goes in behind the front record
InsertSecond(message_array, record) ==
    IF message_array = <<>> THEN <<record>>
    ELSE <<Head(message_array), record>> \o Tail(message_array)

\* message_array.insert(0, record)
Insert(message_array, record) == <<record>> \o message_array

\* mutant of Trim: the pop is missing
TrimNothing(message_array) == message_array

\* if len(message_array) > MAX_MESSAGE_COUNT: message_array.pop()
Trim(message_array) ==
    IF Len(message_array) > MAX_MESSAGE_COUNT
    THEN SubSeq(message_array, 1, Len(message_array) - 1)
    ELSE message_array

\* the record _add_message_to_array builds
DirectRecord(message_data, now) == [timestamp |-> Millis(now), data |-> message_data]

\* mutant of _create_result: every record is marked 'completed'
_create_resultAlwaysCompleted(message_data, audio, tts_status, now) ==
    [timestamp |-> (now * 1000) \div TicksPerSecond, data |-> message_data,
     audio_datas |-> audio.audio_datas, audio_duration |-> audio.audio_duration,
     audio_size |-> audio.audio_size, tts_status |-> "completed"]

\* AsyncTTSManager._create_result, and the same dict built on a cache hit
_create_result(message_data, audio, tts_status, now) ==
    [timestamp |-> Millis(now), data |-> message_data,
     audio_datas |-> audio.audio_datas, audio_duration |-> audio.audio_duration,
     audio_size |-> audio.audio_size, tts_status |-> tts_status]

\* mutant of HasAudio: the test is missing
HasAudioAlways(result) == TRUE

\* "if result and result.get('audio_datas')"
HasAudio(result) == result # None /\ result.audio_datas # <<>>

(***************************************************************************)
(* Synthesis backend: what one call of tts_manager.generate_tts_data can   *)
(* come to, seen from _generate_tts_with_timeout                           *)
(***************************************************************************)
AudioResults ==
    {[audio_datas |-> <<a>>, audio_duration |-> a, audio_size |-> a] : a \in 1..MaxAudio}

SynthOutcomes ==
    {[kind |-> "ok", audio |-> a] : a \in AudioResults}
        \cup {[kind |-> k, audio |-> NoAudio] : k \in {"none", "timeout", "error"}}

(***************************************************************************)
(* TTSManager.generate_tts_data: what it makes of the decoded audio.  A    *)
(* frame is a number: 1..MaxAudio are frames of at most 50000 bytes that   *)
(* convert, LargeFrame is one of more than 50000 bytes, BadFrame one whose *)
(* conversion raises.  The placeholder strings are the numbers below 1.    *)
(***************************************************************************)
LargeFrame == MaxAudio + 1
BadFrame == MaxAudio + 2
LargeFramePlaceholder == 0
ErrorFramePlaceholder == 0 - 1
LargePayloadPlaceholder == 0 - 2
Placeholders == {LargeFramePlaceholder, ErrorFramePlaceholder, LargePayloadPlaceholder}

\* what audio_bytes_to_data hands back: a list of frames, or one bytes
\* payload of at most or of more than 100000 bytes
DecodedAudio ==
    {[type |-> "list", frames |-> f, large |-> FALSE] :
        f \in UNION {[1..n -> (1..MaxAudio) \cup {LargeFrame, BadFrame}] : n \in 0..MaxFrames}}
    \cup {[type |-> "bytes", frames |-> <<1>>, large |-> l] : l \in BOOLEAN}

\* lines 139-157: one frame of the list
SerializeFrame(frame) ==
    IF frame = LargeFrame THEN LargeFramePlaceholder
    ELSE IF frame = BadFrame THEN ErrorFramePlaceholder
    ELSE frame

\* len(frame), in units of 50000 bytes
FrameSize(frame) == IF frame = LargeFrame THEN 2 ELSE 1

RECURSIVE SumSizes(_)
SumSizes(frames) ==
    IF frames = <<>> THEN 0 ELSE FrameSize(Head(frames)) + SumSizes(Tail(frames))

\* lines 126-195: (serializable_audio_datas, duration, audio_size), or
\* (None, 0, 0) when there is no decoded audio
generate_tts_data(decoded) ==
    IF decoded.frames = <<>> THEN NoAudio
    ELSE IF decoded.type = "list"
    THEN [audio_datas |-> [i \in 1..Len(decoded.frames) |->
                                SerializeFrame(decoded.frames[i])],
          audio_duration |-> Len(decoded.frames),
          audio_size |-> SumSizes(decoded.frames)]
    ELSE [audio_datas |-> IF decoded.large THEN <<LargePayloadPlaceholder>>
                          ELSE decoded.frames,
          audio_duration |-> 1,
          audio_size |-> IF decoded.large THEN 3 ELSE 1]

\* the outcomes of a synthesis call, by the decoded audio
FrameOutcomes ==
    {[kind |-> IF generate_tts_data(d) = NoAudio THEN "none" ELSE "ok",
      audio |-> generate_tts_data(d)] : d \in DecodedAudio}

\* _generate_tts_with_timeout: (None, 0, 0) on a timeout or an exception
_generate_tts_with_timeout(outcome) ==
    IF outcome.kind \in {"timeout", "error"} THEN NoAudio ELSE outcome.audio

(***************************************************************************)
(* Threads, locks and task ids                                             *)
(***************************************************************************)
Free == 0
Producers == 1..NumProducers
max_concurrent == TTS_MAX_CONCURRENT
Workers == (NumProducers + 1)..(NumProducers + max_concurrent)
DirectPublisher == NumProducers + max_concurrent + 1
Closer == DirectPublisher + 1
Threads == Producers \cup Workers \cup {DirectPublisher, Closer}

\* uuid4 task ids: an id is never shared by two live tasks (one id more than
\* the manager admits, so that no registration ever lacks a fresh id)
TaskIds == 1..(max_concurrent + 1)

\* the interval in clock ticks
ThrottleTicks == TTS_THROTTLE_INTERVAL * TicksPerSecond
StartTime == ThrottleTicks

\* chat events the producers deliver (message_data)
RawContents == {<<"h", "i">>, <<"1", "2">>}
ChatEvents == {[content |-> c] : c \in RawContents}
StoreEvents == {[content |-> <<"h", "i">>]}
DroppedEvents == {[content |-> <<"1", "2">>]}

\* chat contents for the content filter on its own: every text of up to
\* MaxFilterLen characters over a small alphabet, and three longer ones
FilterAlphabet == {"a", "8", ".", " ", "<ha>"}
LongContents ==
    {<<"<ha>", "<ha>", "<ha>", "<ha>", "<ha>", "<ha>">>,
     <<"a", "b", "c", "a", "b", "c">>,
     <<"h", "e", "l", "l", "o", " ", "8", "8">>}
FilterInputs ==
    UNION {[1..n -> FilterAlphabet] : n \in 0..MaxFilterLen} \cup LongContents
FilterEvents == {[content |-> c] : c \in FilterInputs}

\* filter_content_for_tts on the contents that are delivered, worked out once
Filtered == [c \in RawContents |-> filter_content_for_tts(c)]
FilteredInputs == [c \in FilterInputs |-> filter_content_for_tts(c)]
FilterResult(content) ==
    IF content \in RawContents THEN Filtered[content] ELSE FilteredInputs[content]
DirectKinds == {"gift", "like", "member"}

Put(f, k, v) == [x \in DOMAIN f \cup {k} |-> IF x = k THEN v ELSE f[x]]
Remove(f, k) == [x \in DOMAIN f \ {k} |-> f[x]]

VARIABLES
    clock,              \* time.time(), in ticks
    _last_tts_time,      \* GlobalVal._last_tts_time
    glock,              \* holder of GlobalVal._lock
    mlock,              \* holder of AsyncTTSManager._lock
    cache,              \* _tts_cache.cache
    chat_messages, gift_messages, like_messages, member_messages,
    active_tasks,       \* task id -> its future
    pending_messages,   \* task id -> task info
    work_queue,         \* the executor's queue of submitted jobs
    pc,                 \* where each thread is
    local,              \* each thread's local variables
    inserted,           \* per live task id: records its handler has inserted so far
    max_size,           \* _tts_cache.max_size, the configured TTS_CACHE_SIZE
    cache_ops,          \* the last two direct operations on the cache, latest first
    executor_shutdown   \* ThreadPoolExecutor._shutdown

vars == <<clock, _last_tts_time, glock, mlock, cache, chat_messages, gift_messages,
          like_messages, member_messages, active_tasks, pending_messages,
          work_queue, pc, local, inserted, max_size, cache_ops, executor_shutdown>>

\* what the pipeline never writes
aside == <<max_size, cache_ops, executor_shutdown>>

stores == <<chat_messages, gift_messages, like_messages, member_messages>>

\* mutant of TTSCache_put: nothing is stored
TTSCache_putNothing(c, content, audio, now) == c

\* mutant of TTSCache_put: a key that is present is overwritten where it is
TTSCache_putInPlace(c, content, audio, now) ==
    LET key == _generate_key(content)
        i == KeyIndex(c, key)
        entry == [key |-> key, audio_datas |-> audio.audio_datas,
                  audio_duration |-> audio.audio_duration,
                  audio_size |-> audio.audio_size, cached_time |-> now]
    IN  IF i = 0 THEN EvictOver(Append(c, entry), max_size)
        ELSE [c EXCEPT ![i] = entry]

\* TTSCache.put
TTSCache_put(c, content, audio, now) ==
    LET key == _generate_key(content)
        i == KeyIndex(c, key)
        c1 == IF i = 0 THEN c ELSE RemoveAt(c, i)
        entry == [key |-> key, audio_datas |-> audio.audio_datas,
                  audio_duration |-> audio.audio_duration,
                  audio_size |-> audio.audio_size, cached_time |-> now]
    IN  EvictOver(Append(c1, entry), max_size)

\* mutant of cache_enabled: the test is missing
cache_enabledAlways == TRUE

\* cache_enabled = TTS_CACHE_SIZE > 0; _tts_cache = TTSCache(max_size=TTS_CACHE_SIZE)
cache_enabled == max_size > 0

NoLocal == [task |-> 0, content |-> <<>>, message_data |-> None,
            current_time |-> 0, result |-> None]

\* the module-level objects as constructed, with a cache of the given size
Construct(size) ==
    /\ max_size = size
    /\ cache_ops = <<>>
    /\ executor_shutdown = FALSE
    /\ clock = StartTime
    /\ _last_tts_time = 0
    /\ glock = Free
    /\ mlock = Free
    /\ cache = <<>>
    /\ chat_messages = <<>>
    /\ gift_messages = <<>>
    /\ like_messages = <<>>
    /\ member_messages = <<>>
    /\ active_tasks = [t \in {} |-> None]
    /\ pending_messages = [t \in {} |-> None]
    /\ work_queue = <<>>
    /\ pc = [x \in Threads |-> "idle"]
    /\ local = [x \in Threads |-> NoLocal]
    /\ inserted = [t \in TaskIds |-> 0]

Init == Construct(TTS_CACHE_SIZE)

(***************************************************************************)
(* Chat producers: GlobalVal.update_chat_message ->                        *)
(* _add_chat_message_with_tts_async -> AsyncTTSManager.submit_tts_task     *)
(***************************************************************************)
Return(x) ==
    /\ pc' = [pc EXCEPT ![x] = "idle"]
    /\ local' = [local EXCEPT ![x] = NoLocal]

\* the call ends with an exception that nothing in update_chat_message,
\* _add_chat_message_with_tts_async or submit_tts_task catches
RuntimeError == [tts_status |-> "RuntimeError"]

Raise(x, exception) ==
    /\ pc' = [pc EXCEPT ![x] = "idle"]
    /\ local' = [local EXCEPT ![x] = [NoLocal EXCEPT !.result = exception]]

\* mutant of ThrottlePasses: any later sample passes
ThrottlePassesLater(current_time, last) == current_time > last
\* mutant of ThrottlePasses: the distance is taken in either direction
ThrottlePassesApart(current_time, last) ==
    current_time - last >= ThrottleTicks \/ last - current_time >= ThrottleTicks

\* "if time_since_last < cls._tts_throttle_interval: return", negated
ThrottlePasses(current_time, last) == ~(current_time - last < ThrottleTicks)

\* mutant of GateTimestamp: a rejected event moves the timestamp too
GateTimestampAlways(current_time, last) == current_time
\* mutant of GateTimestamp: an admission is not recorded
GateTimestampNever(current_time, last) == last

\* lines 453-458: _last_tts_time after the gate has seen an event
GateTimestamp(current_time, last) ==
    IF ThrottlePasses(current_time, last) THEN current_time ELSE last

\* mutants of QueueFull: > for >=; the check is missing
QueueFullOffByOne(tasks) == Cardinality(DOMAIN tasks) > max_concurrent
QueueFullNever(tasks) == FALSE
\* mutant of QueueFull: a submission is refused while any task is registered
QueueFullWhenBusy(tasks) == Cardinality(DOMAIN tasks) >= 1

\* "if len(self.active_tasks) >= self.max_concurrent: return None"
QueueFull(tasks) == Cardinality(DOMAIN tasks) >= max_concurrent

\* mutant of TaskCompletedEntry: the handler stores whatever the job returned
TaskCompletedEntryAlways(task_id, result) == "cb_insert"

\* the entry of _task_completed: which branch the handler takes
TaskCompletedEntry(task_id, result) ==
    IF task_id \in DOMAIN pending_messages /\ HasAudio(result)
    THEN "cb_insert" ELSE "cb_finally"

NewTaskId == SetMin(TaskIds \ (DOMAIN pending_messages \cup DOMAIN active_tasks))

\* a chat event arrives; line 451 samples the clock before taking the lock
ChatArrive(p, ev) ==
    /\ pc[p] = "idle"
    /\ pc' = [pc EXCEPT ![p] = "throttle"]
    /\ local' = [local EXCEPT ![p] =
                    [NoLocal EXCEPT !.message_data = ev, !.current_time = clock]]
    /\ UNCHANGED <<aside, clock, _last_tts_time, glock, mlock, cache, stores, active_tasks,
                   pending_messages, work_queue, inserted>>

\* lines 452-459: the throttle gate, under GlobalVal._lock
ThrottleGate(p) ==
    /\ pc[p] = "throttle"
    /\ glock = Free
    /\ _last_tts_time' = GateTimestamp(local[p].current_time, _last_tts_time)
    /\ IF ThrottlePasses(local[p].current_time, _last_tts_time)
       THEN /\ pc' = [pc EXCEPT ![p] = "filter"]
            /\ UNCHANGED local
       ELSE Return(p)
    /\ UNCHANGED <<aside, clock, glock, mlock, cache, stores, active_tasks,
                   pending_messages, work_queue, inserted>>

\* lines 461-492: the empty check, the content filter and the cache probe
FilterAndProbe(p) ==
    /\ pc[p] = "filter"
    /\ LET content == local[p].message_data.content
           filtered == FilterResult(content)
           probe == TTSCache_get(cache, filtered[1])
       IN  IF content = <<>> \/ strip(content) = <<>> \/ ~filtered[2]
           THEN Return(p) /\ UNCHANGED cache
           ELSE IF cache_enabled /\ probe.result # None
           THEN /\ cache' = probe.cache
                /\ pc' = [pc EXCEPT ![p] = "hit_insert"]
                /\ local' = [local EXCEPT ![p].content = filtered[1],
                                ![p].result = _create_result(local[p].message_data,
                                                probe.result, "cached", clock)]
           ELSE /\ UNCHANGED cache
                /\ pc' = [pc EXCEPT ![p] = "submit"]
                /\ local' = [local EXCEPT ![p].content = filtered[1]]
    /\ UNCHANGED <<aside, clock, _last_tts_time, glock, mlock, stores, active_tasks,
                   pending_messages, work_queue, inserted>>

\* mutant of Unlock: the lock is kept
UnlockNever(holder) == holder

\* the end of a "with GlobalVal._lock:" block
Unlock(holder) == Free

\* lines 494-495: the cache-hit record goes in, under GlobalVal._lock
CacheHitInsert(p) ==
    /\ pc[p] = "hit_insert"
    /\ glock = Free
    /\ glock' = p
    /\ chat_messages' = Insert(chat_messages, local[p].result)
    /\ pc' = [pc EXCEPT ![p] = "hit_trim"]
    /\ UNCHANGED <<aside, clock, _last_tts_time, mlock, cache, gift_messages, like_messages,
                   member_messages, active_tasks, pending_messages, work_queue,
                   local, inserted>>

\* lines 496-499: trim, release, return
CacheHitTrim(p) ==
    /\ pc[p] = "hit_trim"
    /\ chat_messages' = Trim(chat_messages)
    /\ glock' = Unlock(p)
    /\ Return(p)
    /\ UNCHANGED <<aside, clock, _last_tts_time, mlock, cache, gift_messages, like_messages,
                   member_messages, active_tasks, pending_messages, work_queue,
                   inserted>>

\* submit_tts_task lines 228-244: the capacity check, the registration and
\* executor.submit, under AsyncTTSManager._lock, which stays held
Submit(p) ==
    /\ pc[p] = "submit"
    /\ mlock = Free
    /\ IF QueueFull(active_tasks)
       THEN /\ Return(p)
            /\ UNCHANGED <<mlock, active_tasks, pending_messages, work_queue, inserted>>
       ELSE IF executor_shutdown
       THEN \* executor.submit raises RuntimeError after line 235 has run; the
            \* with block releases the lock and the call ends with the exception
            /\ pending_messages' = Put(pending_messages, NewTaskId,
                        [content |-> local[p].content,
                         message_data |-> local[p].message_data,
                         message_array |-> "chat", submit_time |-> clock])
            /\ Raise(p, RuntimeError)
            /\ UNCHANGED <<mlock, active_tasks, work_queue, inserted>>
       ELSE LET task_id == NewTaskId
            IN  /\ pending_messages' = Put(pending_messages, task_id,
                        [content |-> local[p].content,
                         message_data |-> local[p].message_data,
                         message_array |-> "chat", submit_time |-> clock])
                /\ work_queue' = Append(work_queue, task_id)
                /\ active_tasks' = Put(active_tasks, task_id,
                        [done |-> FALSE, result |-> None, callback |-> FALSE])
                /\ inserted' = [inserted EXCEPT ![task_id] = 0]
                /\ mlock' = p
                /\ pc' = [pc EXCEPT ![p] = "add_done_callback"]
                /\ local' = [local EXCEPT ![p].task = task_id]
    /\ UNCHANGED <<aside, clock, _last_tts_time, glock, cache, stores>>

\* line 247, future.add_done_callback: a future that is already done runs
\* the callback at once, in the calling thread, which still holds the lock
AddDoneCallback(p) ==
    /\ pc[p] = "add_done_callback"
    /\ LET task_id == local[p].task
           future == active_tasks[task_id]
       IN  IF future.done
           THEN /\ pc' = [pc EXCEPT ![p] = TaskCompletedEntry(task_id, future.result)]
                /\ local' = [local EXCEPT ![p].result = future.result]
                /\ UNCHANGED <<mlock, active_tasks>>
           ELSE /\ active_tasks' = [active_tasks EXCEPT ![task_id].callback = TRUE]
                /\ mlock' = Free
                /\ Return(p)
    /\ UNCHANGED <<aside, clock, _last_tts_time, glock, cache, stores, pending_messages,
                   work_queue, inserted>>

(***************************************************************************)
(* Pool workers: ThreadPoolExecutor running _process_tts_task, then the    *)
(* future's callbacks                                                      *)
(***************************************************************************)
\* mutant of Dequeue: the job stays in the queue
DequeueKeep(queue) == queue

\* the executor's queue after a worker has taken its head
Dequeue(queue) == Tail(queue)

WorkerTake(w) ==
    /\ pc[w] = "idle"
    /\ work_queue # <<>>
    /\ work_queue' = Dequeue(work_queue)
    /\ pc' = [pc EXCEPT ![w] = "process"]
    /\ local' = [local EXCEPT ![w].task = Head(work_queue)]
    /\ UNCHANGED <<aside, clock, _last_tts_time, glock, mlock, cache, stores, active_tasks,
                   pending_messages, inserted>>

\* _process_tts_task lines 255-277: the task info and the cache re-check
ProcessTask(w) ==
    /\ pc[w] = "process"
    /\ LET task_id == local[w].task
       IN  IF task_id \notin DOMAIN pending_messages
           THEN /\ pc' = [pc EXCEPT ![w] = "set_result"]
                /\ local' = [local EXCEPT ![w].result = None]
                /\ UNCHANGED cache
           ELSE LET task_info == pending_messages[task_id]
                    probe == TTSCache_get(cache, task_info.content)
                IN  IF cache_enabled /\ probe.result # None
                    THEN /\ cache' = probe.cache
                         /\ pc' = [pc EXCEPT ![w] = "set_result"]
                         /\ local' = [local EXCEPT ![w].content = task_info.content,
                                ![w].message_data = task_info.message_data,
                                ![w].result = _create_result(task_info.message_data,
                                                probe.result, "cached", clock)]
                    ELSE /\ UNCHANGED cache
                         /\ pc' = [pc EXCEPT ![w] = "synth"]
                         /\ local' = [local EXCEPT ![w].content = task_info.content,
                                ![w].message_data = task_info.message_data]
    /\ UNCHANGED <<aside, clock, _last_tts_time, glock, mlock, stores, active_tasks,
                   pending_messages, work_queue, inserted>>

\* mutant of AudioTruthy: the test is missing
AudioTruthyAlways(audio) == TRUE

\* "if audio_datas" (lines 284 and 288): None and an empty list are false
AudioTruthy(audio) == audio.audio_datas # <<>>

\* lines 280-300: the synthesis call comes back; the cache is written on
\* success and the job's result is built
SynthReturn(w, outcome) ==
    /\ pc[w] = "synth"
    /\ LET audio == _generate_tts_with_timeout(outcome)
       IN  /\ cache' = IF outcome.kind # "error" /\ AudioTruthy(audio) /\ cache_enabled
                       THEN TTSCache_put(cache, local[w].content, audio, clock)
                       ELSE cache
           /\ local' = [local EXCEPT ![w].result =
                            IF AudioTruthy(audio)
                            THEN _create_result(local[w].message_data, audio,
                                                "completed", clock)
                            ELSE None]
    /\ pc' = [pc EXCEPT ![w] = "set_result"]
    /\ UNCHANGED <<aside, clock, _last_tts_time, glock, mlock, stores, active_tasks,
                   pending_messages, work_queue, inserted>>

\* the executor's future.set_result: the future is done, and the callbacks
\* attached so far run in this worker
SetResult(w) ==
    /\ pc[w] = "set_result"
    /\ LET task_id == local[w].task
       IN  /\ active_tasks' = [active_tasks EXCEPT ![task_id].done = TRUE,
                                                   ![task_id].result = local[w].result]
           /\ IF active_tasks[task_id].callback
              THEN /\ pc' = [pc EXCEPT ![w] = TaskCompletedEntry(task_id, local[w].result)]
                   /\ UNCHANGED local
              ELSE Return(w)
    /\ UNCHANGED <<aside, clock, _last_tts_time, glock, mlock, cache, stores,
                   pending_messages, work_queue, inserted>>

(***************************************************************************)
(* _task_completed, in whichever thread runs the callback                  *)
(***************************************************************************)
\* lines 353-354
CbInsert(x) ==
    /\ pc[x] = "cb_insert"
    /\ glock = Free
    /\ glock' = x
    /\ chat_messages' = Insert(chat_messages, local[x].result)
    /\ inserted' = [inserted EXCEPT ![local[x].task] =
                        @ + Len(Insert(chat_messages, local[x].result)) - Len(chat_messages)]
    /\ pc' = [pc EXCEPT ![x] = "cb_trim"]
    /\ UNCHANGED <<aside, clock, _last_tts_time, mlock, cache, gift_messages, like_messages,
                   member_messages, active_tasks, pending_messages, work_queue,
                   local>>

\* lines 355-357
CbTrim(x) ==
    /\ pc[x] = "cb_trim"
    /\ chat_messages' = Trim(chat_messages)
    /\ glock' = Unlock(x)
    /\ pc' = [pc EXCEPT ![x] = "cb_finally"]
    /\ UNCHANGED <<aside, clock, _last_tts_time, mlock, cache, gift_messages, like_messages,
                   member_messages, active_tasks, pending_messages, work_queue,
                   local, inserted>>

\* lines 370-375: the clean-up takes AsyncTTSManager._lock, a non-reentrant
\* threading.Lock
CbFinally(x) ==
    /\ pc[x] = "cb_finally"
    /\ mlock = Free
    /\ active_tasks' = Remove(active_tasks, local[x].task)
    /\ pending_messages' = Remove(pending_messages, local[x].task)
    /\ Return(x)
    /\ inserted' = [inserted EXCEPT ![local[x].task] = 0]
    /\ UNCHANGED <<aside, clock, _last_tts_time, glock, mlock, cache, stores, work_queue>>

(***************************************************************************)
(* Gift, like and member events; the clock; the cache-clear endpoint       *)
(***************************************************************************)
\* mutant of Publishes: an event is written to every direct store
PublishesAll(kind, store) == TRUE

\* update_<kind>_message passes cls.<kind>_messages to _add_message_to_array
Publishes(kind, store) == kind = store

\* update_gift_message / update_like_message / update_member_message
DirectInsert(kind) ==
    /\ pc[DirectPublisher] = "idle"
    /\ glock = Free
    /\ glock' = DirectPublisher
    /\ LET record == DirectRecord([content |-> <<kind>>], clock)
       IN  /\ gift_messages' = IF Publishes(kind, "gift") THEN Insert(gift_messages, record)
                               ELSE gift_messages
           /\ like_messages' = IF Publishes(kind, "like") THEN Insert(like_messages, record)
                               ELSE like_messages
           /\ member_messages' = IF Publishes(kind, "member") THEN Insert(member_messages, record)
                                 ELSE member_messages
    /\ pc' = [pc EXCEPT ![DirectPublisher] = "direct_trim"]
    /\ UNCHANGED <<aside, clock, _last_tts_time, mlock, cache, chat_messages, active_tasks,
                   pending_messages, work_queue, local, inserted>>

DirectTrim ==
    /\ pc[DirectPublisher] = "direct_trim"
    /\ gift_messages' = Trim(gift_messages)
    /\ like_messages' = Trim(like_messages)
    /\ member_messages' = Trim(member_messages)
    /\ glock' = Free
    /\ pc' = [pc EXCEPT ![DirectPublisher] = "idle"]
    /\ UNCHANGED <<aside, clock, _last_tts_time, mlock, cache, chat_messages, active_tasks,
                   pending_messages, work_queue, local, inserted>>

(***************************************************************************)
(* The cache used on its own: get, put and clear called one after another  *)
(***************************************************************************)
\* texts handed to the cache: "Hi", " hi ", "ho", "yo", "ya"
CacheContents ==
    {<<"H", "i">>, <<" ", "h", "i", " ">>, <<"h", "o">>, <<"y", "o">>, <<"y", "a">>}
CacheAudios ==
    {[audio_datas |-> <<a>>, audio_duration |-> a, audio_size |-> a] :
        a \in 1..(MaxAudio + 1)}

Log(op) == <<op>> \o SubSeq(cache_ops, 1, IF cache_ops = <<>> THEN 0 ELSE 1)

\* _tts_cache.get(content)
CacheGet(content) ==
    /\ cache' = TTSCache_get(cache, content).cache
    /\ cache_ops' = Log([op |-> "get", content |-> content, audio |-> NoAudio,
                         result |-> TTSCache_get(cache, content).result])
    /\ UNCHANGED <<max_size, executor_shutdown, clock, _last_tts_time, glock, mlock,
                   stores, active_tasks, pending_messages, work_queue, pc, local,
                   inserted>>

\* _tts_cache.put(content, audio_datas, audio_duration, audio_size)
CachePut(content, audio) ==
    /\ cache' = TTSCache_put(cache, content, audio, clock)
    /\ cache_ops' = Log([op |-> "put", content |-> content, audio |-> audio,
                         result |-> None])
    /\ UNCHANGED <<max_size, executor_shutdown, clock, _last_tts_time, glock, mlock,
                   stores, active_tasks, pending_messages, work_queue, pc, local,
                   inserted>>

\* _tts_cache.clear(), as the /api/tts/cache/clear route calls it
CacheClear ==
    /\ cache' = <<>>
    /\ cache_ops' = Log([op |-> "clear", content |-> <<>>, audio |-> NoAudio,
                         result |-> None])
    /\ UNCHANGED <<max_size, executor_shutdown, clock, _last_tts_time, glock, mlock,
                   stores, active_tasks, pending_messages, work_queue, pc, local,
                   inserted>>

\* what the division by self.max_size raises when max_size is 0
ZeroDivisionError == [tts_status |-> "ZeroDivisionError"]

\* TTSCache.get_stats: the dict, with the rate in tenths of a percent, or
\* the exception the f-string raises
TTSCache_get_stats(c, size) ==
    IF size = 0 THEN ZeroDivisionError
    ELSE [size |-> Len(c), max_size |-> size,
          usage_rate |-> <<Len(c), size, (Len(c) * 1000) \div size>>]

\* _tts_cache.get_stats(), as the /api/tts/cache route calls it
CacheStats ==
    /\ cache_ops' = Log([op |-> "stats", content |-> <<>>, audio |-> NoAudio,
                         result |-> TTSCache_get_stats(cache, max_size)])
    /\ UNCHANGED <<max_size, executor_shutdown, clock, _last_tts_time, glock, mlock,
                   cache, stores, active_tasks, pending_messages, work_queue, pc,
                   local, inserted>>

(***************************************************************************)
(* AsyncTTSManager.shutdown: self.executor.shutdown(wait=True)             *)
(***************************************************************************)
\* the executor stops taking new jobs; the caller starts joining the workers
ShutdownCall ==
    /\ pc[Closer] = "idle"
    /\ ~executor_shutdown
    /\ executor_shutdown' = TRUE
    /\ pc' = [pc EXCEPT ![Closer] = "shutdown_wait"]
    /\ UNCHANGED <<max_size, cache_ops, clock, _last_tts_time, glock, mlock, cache,
                   stores, active_tasks, pending_messages, work_queue, local,
                   inserted>>

\* the join ends when every worker has drained the queue and left its job,
\* callbacks it was running included
ShutdownReturn ==
    /\ pc[Closer] = "shutdown_wait"
    /\ work_queue = <<>>
    /\ \A w \in Workers : pc[w] = "idle"
    /\ pc' = [pc EXCEPT ![Closer] = "shutdown_done"]
    /\ UNCHANGED <<aside, clock, _last_tts_time, glock, mlock, cache, stores,
                   active_tasks, pending_messages, work_queue, local, inserted>>

\* the clock runs from StartTime for Horizon seconds
EndTime == StartTime + Horizon * TicksPerSecond

Tick ==
    /\ clock < EndTime
    /\ clock' = clock + 1
    /\ UNCHANGED <<aside, _last_tts_time, glock, mlock, cache, stores, active_tasks,
                   pending_messages, work_queue, pc, local, inserted>>

\* a whole second passes
TickSecond ==
    /\ clock + TicksPerSecond <= EndTime
    /\ clock' = clock + TicksPerSecond
    /\ UNCHANGED <<aside, _last_tts_time, glock, mlock, cache, stores, active_tasks,
                   pending_messages, work_queue, pc, local, inserted>>

\* what the pipeline does after a chat event has arrived
Pipeline(outcomes) ==
    \/ \E p \in Producers : ThrottleGate(p)
    \/ \E p \in Producers : FilterAndProbe(p)
    \/ \E p \in Producers : CacheHitInsert(p)
    \/ \E p \in Producers : CacheHitTrim(p)
    \/ \E p \in Producers : Submit(p)
    \/ \E p \in Producers : AddDoneCallback(p)
    \/ \E w \in Workers : WorkerTake(w)
    \/ \E w \in Workers : ProcessTask(w)
    \/ \E w \in Workers, outcome \in outcomes : SynthReturn(w, outcome)
    \/ \E w \in Workers : SetResult(w)
    \/ \E x \in Producers \cup Workers : CbInsert(x)
    \/ \E x \in Producers \cup Workers : CbTrim(x)
    \/ \E x \in Producers \cup Workers : CbFinally(x)

(***************************************************************************)
(* Spec: the chat pipeline, any producer, on second boundaries.            *)
(***************************************************************************)
Next ==
    \/ \E p \in Producers, ev \in ChatEvents : ChatArrive(p, ev)
    \/ Pipeline(SynthOutcomes)
    \/ TickSecond

Spec == Init /\ [][Next]_vars

(***************************************************************************)
(* SpecStores: all four stores.  One producer delivers the chat events,    *)
(* the backend answers every call, and the gift, like and member events of *)
(* one run are all of one kind.                                            *)
(***************************************************************************)
OkOutcomes == {o \in SynthOutcomes : o.kind = "ok"}

OnlyKind(kind) ==
    /\ kind # "gift" => gift_messages = <<>>
    /\ kind # "like" => like_messages = <<>>
    /\ kind # "member" => member_messages = <<>>

NextStores ==
    \/ \E ev \in StoreEvents : ChatArrive(1, ev)
    \/ Pipeline(OkOutcomes)
    \/ \E kind \in DirectKinds : OnlyKind(kind) /\ DirectInsert(kind)
    \/ DirectTrim
    \/ TickSecond

SpecStores == Init /\ [][NextStores]_vars

(***************************************************************************)
(* SpecThrottle: the gate alone, on the fine clock.  Every producer        *)
(* delivers chat events, all of them ones the content filter drops.        *)
(***************************************************************************)
NextThrottle ==
    \/ \E p \in Producers, ev \in DroppedEvents : ChatArrive(p, ev)
    \/ \E p \in Producers : ThrottleGate(p)
    \/ \E p \in Producers : FilterAndProbe(p)
    \/ Tick

SpecThrottle == Init /\ [][NextThrottle]_vars

(***************************************************************************)
(* SpecLive: one producer, every thread scheduled fairly, every synthesis  *)
(* call returning or timing out.                                           *)
(***************************************************************************)
ThreadStep(x) ==
    \/ ThrottleGate(x) \/ FilterAndProbe(x) \/ CacheHitInsert(x) \/ CacheHitTrim(x)
    \/ Submit(x) \/ AddDoneCallback(x)
    \/ WorkerTake(x) \/ ProcessTask(x) \/ SetResult(x)
    \/ (\E outcome \in SynthOutcomes : SynthReturn(x, outcome))
    \/ CbInsert(x) \/ CbTrim(x) \/ CbFinally(x)

NextLive ==
    \/ \E ev \in StoreEvents : ChatArrive(1, ev)
    \/ Pipeline(SynthOutcomes)
    \/ TickSecond

SpecLive ==
    /\ Init
    /\ [][NextLive]_vars
    /\ \A x \in Producers \cup Workers : WF_vars(ThreadStep(x))

(***************************************************************************)
(* SpecCache: a cache of any size up to MaxCacheSize, used on its own.     *)
(***************************************************************************)
InitCache == \E size \in 0..MaxCacheSize : Construct(size)

NextCache ==
    \/ \E content \in CacheContents : CacheGet(content)
    \/ \E content \in CacheContents, audio \in CacheAudios : CachePut(content, audio)
    \/ CacheClear
    \/ CacheStats

SpecCache == InitCache /\ [][NextCache]_vars

(***************************************************************************)
(* SpecSizes: the chat pipeline of Spec, with caching configured off       *)
(* (TTS_CACHE_SIZE = 0) or on.                                             *)
(***************************************************************************)
InitSizes == \E size \in {0, TTS_CACHE_SIZE} : Construct(size)

SpecSizes == InitSizes /\ [][Next]_vars

(***************************************************************************)
(* SpecShutdown: one producer, and shutdown called once at any moment.     *)
(***************************************************************************)
NextShutdown ==
    \/ \E ev \in StoreEvents : ChatArrive(1, ev)
    \/ Pipeline(SynthOutcomes)
    \/ TickSecond
    \/ ShutdownCall
    \/ ShutdownReturn

SpecShutdown == Init /\ [][NextShutdown]_vars

(***************************************************************************)
(* SpecFrames: one producer, and synthesis calls that return whatever      *)
(* generate_tts_data makes of the decoded audio.                           *)
(***************************************************************************)
NextFrames ==
    \/ \E ev \in StoreEvents : ChatArrive(1, ev)
    \/ Pipeline(FrameOutcomes)
    \/ TickSecond

SpecFrames == Init /\ [][NextFrames]_vars

(***************************************************************************)
(* SpecFilter: the content filter on its own.  One producer delivers chat  *)
(* events with the contents of FilterInputs; the first one passes the gate *)
(* and is filtered.                                                        *)
(***************************************************************************)
NextFilter ==
    \/ \E ev \in FilterEvents : ChatArrive(1, ev)
    \/ ThrottleGate(1)
    \/ FilterAndProbe(1)

SpecFilter == Init /\ [][NextFilter]_vars

(***************************************************************************)
(* Read-only accessors                                                     *)
(***************************************************************************)
\* AsyncTTSManager.get_status, read under AsyncTTSManager._lock
get_status ==
    [max_concurrent |-> max_concurrent,
     active_tasks |-> Cardinality(DOMAIN active_tasks),
     pending_messages |-> Cardinality(DOMAIN pending_messages)]

\* GlobalVal.get_latest_*_message, read under GlobalVal._lock
Latest(message_array) == IF message_array # <<>> THEN message_array[1] ELSE None
get_latest_chat_message == Latest(chat_messages)
get_latest_gift_message == Latest(gift_messages)
get_latest_like_message == Latest(like_messages)
get_latest_member_message == Latest(member_messages)

(***************************************************************************)
(* Claims                                                                  *)
(***************************************************************************)
InFlight == Cardinality(DOMAIN active_tasks)
CallbackPcs == {"cb_insert", "cb_trim", "cb_finally"}

\* C1: in every reachable state at most max_concurrent tasks are registered
\* in active_tasks, and what get_status reports as active_tasks (read with the
\* manager lock free) never exceeds max_concurrent.
C1_ActiveWithinLimit ==
    /\ InFlight <= max_concurrent
    /\ mlock = Free => get_status.active_tasks <= get_status.max_concurrent

\* C1 witness: the manager is at its limit and a reader can take the lock.
C1_AtLimit == InFlight = max_concurrent /\ mlock = Free

\* C2: a submit_tts_task call made while max_concurrent tasks are in flight
\* returns at once without a task id and changes nothing: no registration,
\* nothing queued for a worker, no worker moves, cache and stores unchanged.
C2_RejectChangesNothing ==
    [][\A p \in Producers :
        (pc[p] = "submit" /\ pc'[p] # "submit" /\ InFlight >= max_concurrent)
            => /\ pc'[p] = "idle"
               /\ UNCHANGED <<active_tasks, pending_messages, work_queue, mlock,
                              cache, stores, inserted>>
               /\ \A w \in Workers : pc'[w] = pc[w]]_vars

\* C2 witness: a producer is about to submit while the manager is full.
C2_SubmitWhileFull ==
    \E p \in Producers : pc[p] = "submit" /\ InFlight = max_concurrent /\ mlock = Free

\* C3 (as claimed): no thread ever waits for the manager lock while the
\* thread holding it is itself waiting for that lock, so every submission
\* returns.
C3_NoThreadWaitsForever == mlock = Free \/ pc[mlock] # "cb_finally"

\* C4 (as claimed): every task registered by submit_tts_task is eventually
\* removed from active_tasks and pending_messages.
C4_AcceptedEventuallyDeregistered ==
    \A t \in TaskIds :
        (t \in DOMAIN active_tasks)
            ~> (t \notin DOMAIN active_tasks /\ t \notin DOMAIN pending_messages)

\* C5: over the life of a task at most one record is inserted for it, and the
\* chat store changes only in a step of a completion handler or of the
\* cache-hit path of a producer, never in a step of the submission or the job.
C5_AtMostOneRecordPerTask ==
    [][/\ \A t \in TaskIds : inserted'[t] <= 1
       /\ chat_messages' # chat_messages =>
            \E x \in Producers \cup Workers :
                /\ pc[x] \in {"cb_insert", "cb_trim", "hit_insert", "hit_trim"}
                /\ pc'[x] # pc[x]]_vars

\* C5 witness: a live task whose handler has inserted its record.
C5_OneInserted == \E t \in DOMAIN active_tasks : inserted[t] = 1

\* a step of thread x on a job that produced no audio
FailedJobStep(x) ==
    \/ pc[x] = "synth" /\ pc'[x] = "set_result" /\ local'[x].result = None
    \/ pc[x] = "add_done_callback" /\ pc'[x] \in CallbackPcs /\ local'[x].result = None
    \/ /\ pc[x] \in {"set_result"} \cup CallbackPcs
       /\ pc'[x] # pc[x]
       /\ local[x].result = None

\* C6: a task whose synthesis timed out, failed, raised or returned no audio
\* inserts nothing: no step taken for it, from the return of the synthesis
\* call to the end of its completion handler, changes any store.
C6_FailedTaskInsertsNothing ==
    [][\A x \in Producers \cup Workers : FailedJobStep(x) => UNCHANGED stores]_vars

\* C6 witness: the handler of a failed task is at its clean-up while the chat
\* store holds a record.
C6_FailedAtCleanup ==
    \E w \in Workers :
        pc[w] = "cb_finally" /\ local[w].result = None /\ chat_messages # <<>>

\* C7: every record of the chat store carries audio and has tts_status
\* 'cached' or 'completed'.
C7_ChatRecordsCarryAudio ==
    \A i \in 1..Len(chat_messages) :
        /\ chat_messages[i] # None
        /\ chat_messages[i].audio_datas # <<>>
        /\ chat_messages[i].tts_status \in {"cached", "completed"}

\* C7 witness: the chat store holds a cached and a completed record.
C7_BothStatuses ==
    /\ \E i \in 1..Len(chat_messages) : chat_messages[i].tts_status = "cached"
    /\ \E i \in 1..Len(chat_messages) : chat_messages[i].tts_status = "completed"

\* C8: whenever GlobalVal._lock is free, each of the four stores holds at
\* most MAX_MESSAGE_COUNT records.
C8_StoresWithinCapacity ==
    glock = Free =>
        /\ Len(chat_messages) <= MAX_MESSAGE_COUNT
        /\ Len(gift_messages) <= MAX_MESSAGE_COUNT
        /\ Len(like_messages) <= MAX_MESSAGE_COUNT
        /\ Len(member_messages) <= MAX_MESSAGE_COUNT

\* C8 witness: under the lock a store is one record over its capacity while
\* another store is full.
C8_OverCapacityUnderLock ==
    /\ glock # Free
    /\ \/ Len(chat_messages) = MAX_MESSAGE_COUNT + 1
          /\ MAX_MESSAGE_COUNT \in {Len(gift_messages), Len(like_messages),
                                    Len(member_messages)}
       \/ Len(chat_messages) = MAX_MESSAGE_COUNT
          /\ MAX_MESSAGE_COUNT + 1 \in {Len(gift_messages), Len(like_messages),
                                        Len(member_messages)}

\* how one step may change a store: a record goes in at the front and the
\* others keep their order, or the store is over its capacity and exactly
\* the last record goes
PublishStep(old, new) ==
    \/ new = old
    \/ Len(old) <= MAX_MESSAGE_COUNT /\ Len(new) = Len(old) + 1 /\ Tail(new) = old
    \/ Len(old) = MAX_MESSAGE_COUNT + 1 /\ new = SubSeq(old, 1, MAX_MESSAGE_COUNT)

\* C9: each store is most-recent-first.  A publish puts its record at the
\* front, keeps the order of the others and removes exactly the last record
\* when the store was full; when the publish is over (the lock is released)
\* the latest accessor returns the published record.
C9_MostRecentFirst ==
    [][/\ PublishStep(chat_messages, chat_messages')
       /\ PublishStep(gift_messages, gift_messages')
       /\ PublishStep(like_messages, like_messages')
       /\ PublishStep(member_messages, member_messages')
       /\ \A x \in Producers \cup Workers :
            (pc[x] \in {"cb_insert", "hit_insert"} /\ pc'[x] # pc[x])
                => Head(chat_messages') = local[x].result
       /\ \A x \in Producers \cup Workers :
            (pc[x] \in {"cb_trim", "hit_trim"} /\ pc'[x] # pc[x])
                => get_latest_chat_message' = local[x].result
       /\ (glock = DirectPublisher /\ glock' = Free)
            => /\ get_latest_gift_message' = Latest(gift_messages)
               /\ get_latest_like_message' = Latest(like_messages)
               /\ get_latest_member_message' = Latest(member_messages)]_vars

\* C9 witness: a publish onto a full chat store is being trimmed.
C9_TrimOfFullStore ==
    \E x \in Producers \cup Workers :
        /\ pc[x] \in {"cb_trim", "hit_trim"}
        /\ Len(chat_messages) = MAX_MESSAGE_COUNT + 1
        /\ chat_messages[1] # chat_messages[2]

\* C10: a chat event passes the gate exactly when its sampled time is at
\* least the interval after the last admission, whose sampled time then
\* becomes the last admission; so the events that have passed are pairwise at
\* least the interval apart and none is later than the last admission.
C10_AdmissionsAnIntervalApart ==
    /\ [][\A p \in Producers :
            (pc[p] = "throttle" /\ pc'[p] # "throttle") =>
                IF local[p].current_time - _last_tts_time >= ThrottleTicks
                THEN pc'[p] = "filter" /\ _last_tts_time' = local[p].current_time
                ELSE pc'[p] = "idle" /\ _last_tts_time' = _last_tts_time]_vars
    /\ [](\A p, q \in Producers :
            (pc[p] = "filter" /\ pc[q] = "filter" /\ p # q) =>
                /\ local[p].current_time <= _last_tts_time
                /\ \/ local[p].current_time - local[q].current_time >= ThrottleTicks
                   \/ local[q].current_time - local[p].current_time >= ThrottleTicks)

\* C10 witness: two producers hold events that have both passed the gate.
C10_TwoAdmitted ==
    \E p, q \in Producers : p # q /\ pc[p] = "filter" /\ pc[q] = "filter"

\* C11: a chat event the throttle gate rejects has no side effects: the step
\* that rejects it leaves the last-admission timestamp, the cache (entries and
\* their order), the registry of tasks, the executor's queue, every worker and
\* the four stores as they were, and the call returns.
C11_ThrottledChangesNothing ==
    [][\A p \in Producers :
        (/\ pc[p] = "throttle" /\ pc'[p] # "throttle"
         /\ local[p].current_time - _last_tts_time < ThrottleTicks)
            => /\ pc'[p] = "idle"
               /\ UNCHANGED <<_last_tts_time, cache, active_tasks, pending_messages,
                              work_queue, stores, glock, mlock>>
               /\ \A w \in Workers : pc'[w] = pc[w]]_vars

\* C11 witness: an event sampled before the last admission is at the gate
\* while the cache holds an entry and a task is in flight.
C11_StaleEventAtGate ==
    \E p \in Producers :
        /\ pc[p] = "throttle"
        /\ local[p].current_time < _last_tts_time
        /\ glock = Free
        /\ cache # <<>>
        /\ InFlight > 0

\* C12 (as claimed): the throttle is consulted only for events the content
\* filter found eligible, so the gate never moves the last-admission timestamp
\* for an event that is empty or that the filter rejects.
C12_FilterBeforeThrottle ==
    [][\A p \in Producers :
        (/\ pc[p] = "throttle" /\ pc'[p] # "throttle"
         /\ ~Filtered[local[p].message_data.content][2])
            => _last_tts_time' = _last_tts_time]_vars

\* a direct publish of one kind: the record is at the front of its own store
\* and the other records follow it as they were
DirectFront(kind, old, new) ==
    /\ new # <<>>
    /\ Head(new) = DirectRecord([content |-> <<kind>>], clock)
    /\ Tail(new) = old

\* C13: a gift, like or member event puts exactly one record at the front of
\* its own store, whatever the throttle state and the number of tasks in
\* flight, and changes nothing else: the last-admission timestamp, the cache,
\* the registry of tasks and the other three stores stay as they were, and
\* the record is still the front one when the publish is over.
C13_DirectPublishOnlyOwnStore ==
    [][/\ \A kind \in DirectKinds : DirectInsert(kind) =>
            /\ kind = "gift" => DirectFront(kind, gift_messages, gift_messages')
            /\ kind = "like" => DirectFront(kind, like_messages, like_messages')
            /\ kind = "member" => DirectFront(kind, member_messages, member_messages')
            /\ kind # "gift" => gift_messages' = gift_messages
            /\ kind # "like" => like_messages' = like_messages
            /\ kind # "member" => member_messages' = member_messages
            /\ UNCHANGED <<_last_tts_time, cache, active_tasks, pending_messages,
                           work_queue, chat_messages, mlock>>
       /\ DirectTrim =>
            /\ \A kind \in DirectKinds :
                    LET old == CASE kind = "gift" -> gift_messages
                                 [] kind = "like" -> like_messages
                                 [] OTHER -> member_messages
                        new == CASE kind = "gift" -> gift_messages'
                                 [] kind = "like" -> like_messages'
                                 [] OTHER -> member_messages'
                    IN  old # <<>> => /\ Head(new) = Head(old)
                                      /\ Len(new) = IF Len(old) > MAX_MESSAGE_COUNT
                                                    THEN MAX_MESSAGE_COUNT ELSE Len(old)
            /\ UNCHANGED <<_last_tts_time, cache, active_tasks, pending_messages,
                           work_queue, chat_messages, mlock>>]_vars

\* C13 witness: a direct publish is under way while the throttle gate is
\* closed and a task is in flight.
C13_DirectWhileBusy ==
    /\ pc[DirectPublisher] = "direct_trim"
    /\ clock - _last_tts_time < ThrottleTicks
    /\ InFlight > 0
    /\ cache # <<>>

\* the keys in the cache
CacheKeys == {cache[i].key : i \in 1..Len(cache)}

\* a text trimmed and lower-cased
Norm(text) == lower(strip(text))

\* the entry a put of (content, audio) writes
PutEntry(content, audio) ==
    [key |-> Norm(content), audio_datas |-> audio.audio_datas,
     audio_duration |-> audio.audio_duration, audio_size |-> audio.audio_size,
     cached_time |-> clock]

\* C14: after any sequence of get, put and clear the cache holds at most
\* max_size entries, no two of them under one key; a put of a key that is
\* not present into a full cache removes exactly one entry, the least
\* recently used one (the front one), and an entry that the operation just
\* before read by a hit or wrote is not the one removed when max_size >= 2.
C14_BoundedLruEviction ==
    /\ [](/\ Len(cache) <= max_size
          /\ \A i, j \in 1..Len(cache) : cache[i].key = cache[j].key => i = j)
    /\ [][\A content \in CacheContents, audio \in CacheAudios :
            (/\ CachePut(content, audio)
             /\ Norm(content) \notin CacheKeys
             /\ Len(cache) = max_size
             /\ max_size >= 1)
                => /\ cache' = Tail(cache) \o <<PutEntry(content, audio)>>
                   /\ (/\ max_size >= 2
                        /\ cache_ops # <<>>
                        /\ Head(cache_ops).op \in {"get", "put"}
                        /\ Norm(Head(cache_ops).content) \in CacheKeys)
                            => Head(cache).key # Norm(Head(cache_ops).content)]_vars

\* C14 witness: a put of a new key into a full cache of two entries has just
\* followed a hit on what was the older of the two.
C14_EvictedAfterHit ==
    /\ max_size = 2
    /\ Len(cache) = 2
    /\ Len(cache_ops) = 2
    /\ cache_ops[1].op = "put"
    /\ cache_ops[2].op = "get"
    /\ cache_ops[2].result # None
    /\ cache[1].key = Norm(cache_ops[2].content)
    /\ cache[2].key = Norm(cache_ops[1].content)
    /\ cache[1].key # cache[2].key

\* C15: a get that hits moves its entry to the most-recently-used end and
\* returns the stored triple; the entries, their values and the order of the
\* other entries are unchanged, so the next put of a new key leaves the entry
\* in place when max_size >= 2.  A get that misses returns None and changes
\* nothing.
C15_HitMovesToMostRecent ==
    [][/\ \A content \in CacheContents : CacheGet(content) =>
            LET hit == {i \in 1..Len(cache) : cache[i].key = Norm(content)}
            IN  IF hit = {}
                THEN cache' = cache /\ Head(cache_ops').result = None
                ELSE \E i \in hit :
                        /\ cache' = RemoveAt(cache, i) \o <<cache[i]>>
                        /\ Head(cache_ops').result =
                                [audio_datas |-> cache[i].audio_datas,
                                 audio_duration |-> cache[i].audio_duration,
                                 audio_size |-> cache[i].audio_size]
       /\ \A content \in CacheContents, audio \in CacheAudios :
            (/\ CachePut(content, audio)
             /\ max_size >= 2
             /\ cache_ops # <<>>
             /\ Head(cache_ops).op = "get"
             /\ Head(cache_ops).result # None)
                => \E i \in 1..Len(cache') :
                        /\ cache'[i].key = Norm(Head(cache_ops).content)
                        /\ Norm(content) # Norm(Head(cache_ops).content)
                                => \E j \in 1..Len(cache) : cache'[i] = cache[j]]_vars

\* C15 witness: the latest operation was a hit on an entry that was not the
\* most recently used one.
C15_HitOnOlderEntry ==
    /\ Len(cache) = 2
    /\ Len(cache_ops) = 2
    /\ cache_ops[1].op = "get"
    /\ cache_ops[1].result # None
    /\ cache_ops[2].op = "put"
    /\ Norm(cache_ops[2].content) # Norm(cache_ops[1].content)
    /\ cache[2].key = Norm(cache_ops[1].content)

\* C16: with max_size >= 1, a get(y) right after put(x, a, d, s) returns
\* exactly (a, d, s) whenever y equals x after trimming and lower-casing; and
\* no two texts that differ after trimming and lower-casing share an entry:
\* a get(y) returns only what was last put under a text equal to y in that
\* sense, and a put leaves the entries of the other texts as they were.
C16_PutGetRoundTrip ==
    [][/\ \A y \in CacheContents :
            (/\ CacheGet(y)
             /\ max_size >= 1
             /\ cache_ops # <<>>
             /\ Head(cache_ops).op = "put")
                => IF Norm(y) = Norm(Head(cache_ops).content)
                   THEN Head(cache_ops').result = Head(cache_ops).audio
                   ELSE Head(cache_ops').result # None =>
                            \E i \in 1..Len(cache) :
                                /\ cache[i].key = Norm(y)
                                /\ cache[i].key # Norm(Head(cache_ops).content)
                                /\ Head(cache_ops').result.audio_datas = cache[i].audio_datas
       /\ \A x \in CacheContents, audio \in CacheAudios :
            CachePut(x, audio) =>
                \A i \in 1..Len(cache') :
                    \/ cache'[i] = PutEntry(x, audio)
                    \/ /\ cache'[i].key # Norm(x)
                       /\ \E j \in 1..Len(cache) : cache[j] = cache'[i]]_vars

\* C16 witness: a get of " hi " has just returned what the put of "Hi" stored.
C16_HitUnderOtherSpelling ==
    /\ Len(cache_ops) = 2
    /\ cache_ops[1].op = "get"
    /\ cache_ops[2].op = "put"
    /\ cache_ops[1].content # cache_ops[2].content
    /\ Norm(cache_ops[1].content) = Norm(cache_ops[2].content)
    /\ cache_ops[1].result = cache_ops[2].audio

\* C17: with TTS_CACHE_SIZE = 0 caching is disabled: the cache is empty in
\* every reachable state, no chat event and no job gets a hit (no producer is
\* on the cache-hit path, no result and no record has status 'cached'), an
\* admitted eligible event goes to submit_tts_task and every job of an
\* accepted task goes to the synthesis call.
C17_SizeZeroDisablesCache ==
    /\ [](max_size = 0 =>
            /\ ~cache_enabled
            /\ cache = <<>>
            /\ \A x \in Producers \cup Workers :
                    /\ pc[x] \notin {"hit_insert", "hit_trim"}
                    /\ local[x].result.tts_status # "cached"
            /\ \A i \in 1..Len(chat_messages) : chat_messages[i].tts_status # "cached")
    /\ [][max_size = 0 =>
            /\ \A p \in Producers :
                    (FilterAndProbe(p) /\ Filtered[local[p].message_data.content][2])
                        => pc'[p] = "submit"
            /\ \A w \in Workers :
                    (ProcessTask(w) /\ local[w].task \in DOMAIN pending_messages)
                        => pc'[w] = "synth"]_vars

\* C17 witness: with size 0, a job is at the synthesis call for a text whose
\* audio an earlier job has already produced and published.
C17_SynthesisedAgain ==
    /\ max_size = 0
    /\ \E w \in Workers :
            /\ pc[w] = "synth"
            /\ \E i \in 1..Len(chat_messages) :
                    chat_messages[i].data = local[w].message_data

\* the registry of tasks, the executor's queue and the workers are untouched
NoTaskNoSynthesis ==
    /\ UNCHANGED <<active_tasks, pending_messages, work_queue, mlock>>
    /\ \A w \in Workers : pc'[w] = pc[w] /\ local'[w] = local[w]

\* C18: when an admitted eligible chat event finds its text in the cache, a
\* record with status 'cached' that carries the cached audio is put at the
\* front of the chat store and is there when update_chat_message returns; no
\* task is registered or queued and no worker moves, however many tasks are
\* in flight.
C18_CacheHitPublishesAtOnce ==
    [][\A p \in Producers :
        /\ (/\ FilterAndProbe(p)
             /\ Filtered[local[p].message_data.content][2]
             /\ cache_enabled
             /\ Norm(Filtered[local[p].message_data.content][1]) \in CacheKeys)
                => /\ pc'[p] = "hit_insert"
                   /\ local'[p].result.tts_status = "cached"
                   /\ local'[p].result.data = local[p].message_data
                   /\ \E i \in 1..Len(cache) :
                        /\ cache[i].key = Norm(Filtered[local[p].message_data.content][1])
                        /\ local'[p].result.audio_datas = cache[i].audio_datas
                        /\ local'[p].result.audio_datas # <<>>
                   /\ NoTaskNoSynthesis
        /\ CacheHitInsert(p)
                => /\ chat_messages' = <<local[p].result>> \o chat_messages
                   /\ pc'[p] = "hit_trim"
                   /\ NoTaskNoSynthesis
        /\ CacheHitTrim(p)
                => /\ pc'[p] = "idle"
                   /\ Head(chat_messages') = local[p].result
                   /\ local[p].result.tts_status = "cached"
                   /\ NoTaskNoSynthesis]_vars

\* C18 witness: a cache-hit record has been inserted and the call is about
\* to return while max_concurrent tasks are in flight.
C18_HitWhileFull ==
    \E p \in Producers : pc[p] = "hit_trim" /\ InFlight = max_concurrent

\* C19: when a job's synthesis call returns audio and caching is enabled, the
\* audio is stored in the cache under the job's text in the step that builds
\* the result, hence before the handler runs; the handler of a 'completed'
\* result always takes the storing branch, finds the text cached, and puts
\* exactly one record, the 'completed' one with that audio, at the front of
\* the chat store.
C19_SuccessCachedThenPublished ==
    /\ [][/\ \A w \in Workers, outcome \in OkOutcomes :
                (SynthReturn(w, outcome) /\ cache_enabled)
                    => /\ cache' # <<>>
                       /\ cache'[Len(cache')] = PutEntry(local[w].content, outcome.audio)
                       /\ local'[w].result.tts_status = "completed"
                       /\ local'[w].result.audio_datas = outcome.audio.audio_datas
                       /\ UNCHANGED stores
           /\ \A x \in Producers \cup Workers :
                /\ (/\ (SetResult(x) \/ AddDoneCallback(x))
                     /\ pc'[x] \in CallbackPcs
                     /\ local'[x].result.tts_status = "completed")
                        => pc'[x] = "cb_insert" /\ UNCHANGED stores
                /\ (CbInsert(x) /\ local[x].result.tts_status = "completed")
                        => /\ chat_messages' = <<local[x].result>> \o chat_messages
                           /\ inserted[local[x].task] = 0
                           /\ inserted'[local[x].task] = 1]_vars
    /\ [](\A x \in Producers \cup Workers :
            (pc[x] \in {"set_result", "cb_insert"}
                /\ local[x].result.tts_status = "completed" /\ cache_enabled)
                => Norm(pending_messages[local[x].task].content) \in CacheKeys)

\* C19 witness: the handler of a synthesised result has put its record at
\* the front of the chat store, and the text is in the cache.
C19_CompletedPublished ==
    \E x \in Producers \cup Workers :
        /\ pc[x] = "cb_trim"
        /\ local[x].result.tts_status = "completed"
        /\ Head(chat_messages) = local[x].result
        /\ Norm(pending_messages[local[x].task].content) \in CacheKeys

\* C20 (as claimed): when shutdown has returned, every task that was
\* registered has run to its end, its completion handler has finished and
\* the registry is empty (no task is registered once shutdown has been
\* called, so the registry at the return holds only tasks that were in
\* flight at the call).
C20_ShutdownLeavesNothingInFlight ==
    pc[Closer] = "shutdown_done" =>
        /\ active_tasks = [t \in {} |-> None]
        /\ work_queue = <<>>
        /\ \A x \in Producers \cup Workers :
                pc[x] \notin {"add_done_callback", "process", "synth", "set_result"}
                                \cup CallbackPcs

\* C21 (as claimed): once shutdown has been called, a submit_tts_task call
\* returns without a task id and without an exception, and leaves
\* active_tasks and pending_messages as they were.
C21_NoSubmissionAfterShutdown ==
    [][\A p \in Producers :
        (Submit(p) /\ executor_shutdown)
            => /\ pc'[p] = "idle"
               /\ local'[p] = NoLocal
               /\ UNCHANGED <<active_tasks, pending_messages, work_queue>>]_vars

\* C29 (as claimed): whenever AsyncTTSManager._lock is free, active_tasks and
\* pending_messages hold the same task ids.
C29_RegistriesAgree ==
    mlock = Free => DOMAIN active_tasks = DOMAIN pending_messages

\* the places where the job of task t is: queued, or being run by a worker
JobPlaces(t) ==
    Cardinality({i \in 1..Len(work_queue) : work_queue[i] = t})
        + Cardinality({w \in Workers :
                        pc[w] \in {"process", "synth", "set_result"} /\ local[w].task = t})

\* C22: failed work is never retried.  The job of a task exists at most once
\* and only while the task is registered and its future is not done; a
\* worker enters the synthesis call only from the start of a job it has just
\* taken from the queue and leaves it only to set the result; and a job is
\* queued only by an accepted submit_tts_task call.  So each task gets at
\* most one synthesis call, and a failed task none after its failure.
C22_NoRetry ==
    /\ [](\A t \in TaskIds :
            /\ JobPlaces(t) <= 1
            /\ t \notin DOMAIN active_tasks => JobPlaces(t) = 0
            /\ (t \in DOMAIN active_tasks /\ active_tasks[t].done) => JobPlaces(t) = 0)
    /\ [][/\ \A w \in Workers :
                /\ (pc'[w] = "synth" /\ pc[w] # "synth") => pc[w] = "process"
                /\ (pc[w] = "synth" /\ pc'[w] # "synth") => pc'[w] = "set_result"
                /\ (pc'[w] = "process" /\ pc[w] # "process")
                        => pc[w] = "idle" /\ local'[w].task = Head(work_queue)
           /\ Len(work_queue') > Len(work_queue)
                => \E p \in Producers :
                        /\ pc[p] = "submit"
                        /\ pc'[p] = "add_done_callback"
                        /\ work_queue' = Append(work_queue, local'[p].task)
                        /\ local'[p].task \notin DOMAIN active_tasks]_vars

\* C22 witness: the job of a registered task has failed, and no job is
\* queued or running.
C22_FailedAndDropped ==
    /\ \E t \in DOMAIN active_tasks :
            active_tasks[t].done /\ active_tasks[t].result = None
    /\ work_queue = <<>>
    /\ \A w \in Workers : pc[w] = "idle"

\* C23 (as claimed): the stores are locked independently, so while a thread
\* is inside the critical section of the chat store (its record inserted,
\* the trim still to come) a gift, like or member publish can proceed.
C23_StoresLockedIndependently ==
    \A x \in Producers \cup Workers :
        (pc[x] \in {"cb_trim", "hit_trim"} /\ pc[DirectPublisher] = "idle")
            => \A kind \in DirectKinds : ENABLED DirectInsert(kind)

\* C24: no lock is held across the synthesis call.  A worker that is running
\* a job (from taking it to setting its result, the synthesis call included)
\* holds neither GlobalVal._lock nor AsyncTTSManager._lock; whoever holds
\* one of them is inside a critical section of the store or of the manager,
\* none of which contains the synthesis call.  (The cache lock is taken and
\* released inside each get and put.)
C24_NoLockAcrossSynthesis ==
    /\ \A w \in Workers :
            pc[w] \in {"process", "synth", "set_result"} => glock # w /\ mlock # w
    /\ glock # Free => pc[glock] \in {"cb_trim", "hit_trim", "direct_trim"}
    /\ mlock # Free => pc[mlock] \in {"add_done_callback"} \cup CallbackPcs

\* C24 witness: every worker is inside a synthesis call while a producer
\* holds the manager lock.
C24_AllSynthesisingLockHeld ==
    /\ \A w \in Workers : pc[w] = "synth"
    /\ mlock \in Producers

\* C25: the order of the chat store is the order of publication, whatever
\* the order of submission.  A completion handler puts its task's record at
\* the front and every record published before it, by the handler of a task
\* submitted earlier or later or by a cache hit, moves one place back; a
\* cache hit goes to the front at once, ahead of the records of the jobs
\* that are still running, whose records will later go in front of it.
C25_CompletionOrder ==
    [][\A x \in Producers \cup Workers :
        /\ CbInsert(x)
            => LET A == local[x].task
               IN  /\ chat_messages' = <<active_tasks[A].result>> \o chat_messages
                   /\ \A B \in DOMAIN active_tasks \ {A} :
                        \A i \in 1..Len(chat_messages) :
                            (inserted[B] = 1 /\ chat_messages[i] = active_tasks[B].result)
                                => chat_messages'[i + 1] = active_tasks[B].result
        /\ CacheHitInsert(x)
            => /\ chat_messages' = <<local[x].result>> \o chat_messages
               /\ UNCHANGED <<active_tasks, pending_messages, inserted>>]_vars

\* C25 witness: task A was submitted before task B, B's handler has
\* published, and A's handler has just put A's record in front of B's.
C25_EarlierSubmittedInFront ==
    \E x \in Producers \cup Workers :
        \E B \in DOMAIN active_tasks \ {local[x].task} :
            LET A == local[x].task
            IN  /\ pc[x] = "cb_trim"
                /\ inserted[A] = 1 /\ inserted[B] = 1
                /\ pending_messages[A].submit_time < pending_messages[B].submit_time
                /\ Len(chat_messages) >= 2
                /\ chat_messages[1] = active_tasks[A].result
                /\ chat_messages[2] = active_tasks[B].result
                /\ chat_messages[1] # chat_messages[2]

\* C26: identical texts are not strictly deduplicated.  A submission below
\* the limit is registered and queued whatever texts the registered tasks
\* have, and a job whose text is not in the cache goes on to the synthesis
\* call whatever the other workers are synthesising: only a cache entry
\* stops a second synthesis of a text.
C26_OnlyTheCacheDeduplicates ==
    [][/\ \A p \in Producers :
            (Submit(p) /\ Cardinality(DOMAIN active_tasks) < max_concurrent)
                => /\ DOMAIN active_tasks' = DOMAIN active_tasks \cup {NewTaskId}
                   /\ NewTaskId \notin DOMAIN active_tasks
                   /\ pending_messages'[NewTaskId].content = local[p].content
                   /\ work_queue' = Append(work_queue, NewTaskId)
       /\ \A w \in Workers :
            (/\ ProcessTask(w)
             /\ local[w].task \in DOMAIN pending_messages
             /\ ~(cache_enabled
                    /\ Norm(pending_messages[local[w].task].content) \in CacheKeys))
                => /\ pc'[w] = "synth"
                   /\ local'[w].content = pending_messages[local[w].task].content]_vars

\* C26 witness: two events with the same text were admitted an interval
\* apart, both missed the cache at admission and in the job, and both jobs
\* are inside the synthesis call for that text at once.
C26_SameTextSynthesisedTwice ==
    \E w1, w2 \in Workers :
        /\ w1 # w2
        /\ pc[w1] = "synth" /\ pc[w2] = "synth"
        /\ local[w1].task # local[w2].task
        /\ local[w1].content = local[w2].content
        /\ {local[w1].task, local[w2].task} \subseteq DOMAIN active_tasks
        /\ ~active_tasks[local[w1].task].done /\ ~active_tasks[local[w2].task].done
        /\ pending_messages[local[w2].task].submit_time
                >= pending_messages[local[w1].task].submit_time + ThrottleTicks
        /\ cache_enabled
        /\ Norm(local[w1].content) \notin CacheKeys

\* the entries of a cache, whatever their order
CacheEntries(c) == {c[i] : i \in 1..Len(c)}

\* C30: a job that finds its text in the cache at the in-job re-check builds
\* a 'cached' result with the cached audio and goes straight to the end of
\* the job: it never enters the synthesis call and the cache keeps exactly
\* its entries (only their order changes); the handler then puts that
\* 'cached' record at the front of the chat store, again without a write to
\* the cache.
C30_InJobHitUsesCachedAudio ==
    [][/\ \A w \in Workers :
            /\ (/\ ProcessTask(w)
                 /\ local[w].task \in DOMAIN pending_messages
                 /\ cache_enabled
                 /\ Norm(pending_messages[local[w].task].content) \in CacheKeys)
                    => /\ pc'[w] = "set_result"
                       /\ local'[w].result.tts_status = "cached"
                       /\ local'[w].result.data = pending_messages[local[w].task].message_data
                       /\ \E i \in 1..Len(cache) :
                            /\ cache[i].key = Norm(pending_messages[local[w].task].content)
                            /\ local'[w].result.audio_datas = cache[i].audio_datas
                            /\ local'[w].result.audio_datas # <<>>
                       /\ CacheEntries(cache') = CacheEntries(cache)
                       /\ Len(cache') = Len(cache)
                       /\ UNCHANGED stores
            /\ (SetResult(w) /\ local[w].result.tts_status = "cached")
                    => /\ UNCHANGED <<cache, stores>>
                       /\ active_tasks'[local[w].task].result = local[w].result
                       /\ pc'[w] \in {"cb_insert", "idle"}
       /\ \A x \in Producers \cup Workers :
            (CbInsert(x) /\ local[x].result.tts_status = "cached")
                => /\ chat_messages' = <<local[x].result>> \o chat_messages
                   /\ UNCHANGED cache]_vars

\* C30 witness: the handler of a job has published a 'cached' record whose
\* audio was put into the cache after the job's task was submitted.
C30_InJobHitPublished ==
    \E x \in Producers \cup Workers :
        /\ pc[x] = "cb_trim"
        /\ local[x].task \in DOMAIN pending_messages
        /\ local[x].result.tts_status = "cached"
        /\ Head(chat_messages) = local[x].result
        /\ \E i \in 1..Len(cache) :
            /\ cache[i].key = Norm(pending_messages[local[x].task].content)
            /\ cache[i].audio_datas = local[x].result.audio_datas
            /\ cache[i].cached_time > pending_messages[local[x].task].submit_time

\* C27 (as claimed): the filter returns ("", False) or (normalized, True),
\* and a text it accepts is the normal form of the content, is not empty,
\* has at least two characters, is not all digits, is not one character
\* repeated more than four times, is not a filler token, contains no
\* farewell phrase and matches no URL pattern.
C27_AcceptedTextIsNormalized ==
    \A p \in Producers :
        /\ pc[p] = "filter"
            => LET r == FilterResult(local[p].message_data.content)
               IN  \/ r = << <<>>, FALSE >>
                   \/ r = << Normalize(local[p].message_data.content), TRUE >>
        /\ pc[p] = "submit"
            => LET t == local[p].content
               IN  /\ t = Normalize(local[p].message_data.content)
                   /\ t # <<>>
                   /\ Len(t) >= 2
                   /\ ~isdigit(t)
                   /\ ~(Cardinality(CharSet(t)) = 1 /\ Len(t) > 4)
                   /\ lower(t) \notin meaningless_words
                   /\ \A farewell \in farewell_words : ~IsSubstr(farewell, lower(t))
                   /\ \A u \in url_patterns : ~IsSubstr(u, lower(t))

\* C28 (as claimed): a content whose normal form is, as a whole, two or
\* more copies of a pattern of one to three characters is rejected, whatever
\* the length of the normal form.
C28_RepetitionRejected ==
    \A p \in Producers :
        pc[p] = "submit"
            => LET t == local[p].content
               IN  ~(\E pattern_len \in 1..3 : \E copies \in 2..Len(t) :
                        Repeat(SubSeq(t, 1, pattern_len), copies) = t)

\* C31: the last-admission timestamp never decreases, however the producers'
\* clock samples and their turns at the lock interleave; it changes only in
\* the step in which a chat event passes the gate, and then it is that
\* event's sampled time.
C31_LastAdmissionNeverDecreases ==
    [][/\ _last_tts_time' >= _last_tts_time
       /\ _last_tts_time' # _last_tts_time
            => \E p \in Producers :
                /\ ThrottleGate(p)
                /\ pc'[p] = "filter"
                /\ _last_tts_time' = local[p].current_time
                /\ local[p].current_time >= _last_tts_time + ThrottleTicks]_vars

\* C31 witness: the timestamp has advanced past the first admission and an
\* event sampled before it, by another producer, is at the gate with the
\* lock free.
C31_OlderSampleAtGate ==
    \E p, q \in Producers :
        /\ p # q
        /\ _last_tts_time >= StartTime + ThrottleTicks
        /\ pc[p] = "throttle"
        /\ local[p].current_time < _last_tts_time
        /\ local[p].current_time > 0
        /\ glock = Free
        /\ pc[q] = "filter"
        /\ local[q].current_time = _last_tts_time

\* C32: passing the gate is the admission, whatever follows.  While an
\* event that passed is being filtered, served from the cache or submitted,
\* the timestamp is at least its sampled time; the cache-hit publish and the
\* rejection of a submission by a full manager leave the timestamp as it is
\* and start no job; and an event sampled less than the interval after the
\* timestamp is throttled, whether or not any task is registered.
C32_AdmissionCountsWhateverFollows ==
    /\ [](\A p \in Producers :
            pc[p] \in {"filter", "hit_insert", "hit_trim", "submit", "add_done_callback"}
                => _last_tts_time >= local[p].current_time)
    /\ [][\A p \in Producers :
            /\ (CacheHitInsert(p) \/ CacheHitTrim(p))
                => UNCHANGED <<_last_tts_time, active_tasks, pending_messages, work_queue>>
            /\ (Submit(p) /\ Cardinality(DOMAIN active_tasks) >= max_concurrent)
                => /\ UNCHANGED <<_last_tts_time, active_tasks, pending_messages,
                                  work_queue, stores>>
                   /\ pc'[p] = "idle"
            /\ (ThrottleGate(p) /\ local[p].current_time - _last_tts_time < ThrottleTicks)
                => pc'[p] = "idle" /\ UNCHANGED _last_tts_time]_vars

\* C32 witness: the event that was admitted last is about to be rejected by
\* the full manager, and another event sampled less than the interval after
\* it is at the gate.
C32_ThrottledAfterRejection ==
    \E p, q \in Producers :
        /\ p # q
        /\ pc[p] = "submit"
        /\ QueueFull(active_tasks)
        /\ local[p].current_time = _last_tts_time
        /\ pc[q] = "throttle"
        /\ local[q].current_time >= _last_tts_time
        /\ local[q].current_time - _last_tts_time < ThrottleTicks

\* C33: every cache entry holds a non-empty audio that a synthesis call
\* returned for the entry's text.  The entries of the cache change only in
\* the step in which a synthesis call returns audio, and what is written is
\* that audio under the job's text; a call that returns nothing, times out
\* or raises leaves the cache as it is and gives the job no result.
C33_CacheHoldsOnlySynthesisedAudio ==
    /\ [](\A i \in 1..Len(cache) : cache[i].audio_datas # <<>>)
    /\ [][/\ CacheEntries(cache') # CacheEntries(cache)
            => \E w \in Workers, outcome \in OkOutcomes :
                /\ SynthReturn(w, outcome)
                /\ cache'[Len(cache')] = PutEntry(local[w].content, outcome.audio)
                /\ CacheEntries(cache') \subseteq
                        CacheEntries(cache) \cup {cache'[Len(cache')]}
          /\ \A w \in Workers, outcome \in SynthOutcomes \ OkOutcomes :
                SynthReturn(w, outcome)
                    => UNCHANGED cache /\ local'[w].result = None]_vars

\* C33 witness: a synthesis call has failed and the job ends without a
\* result while the cache, which is enabled, has no entry for the text.
C33_FailedTextStaysMiss ==
    \E w \in Workers :
        /\ pc[w] = "set_result"
        /\ local[w].result = None
        /\ local[w].task \in DOMAIN pending_messages
        /\ local[w].content = pending_messages[local[w].task].content
        /\ cache_enabled
        /\ Norm(local[w].content) \notin CacheKeys

\* C34: a put on a text whose key is already cached replaces the stored
\* values by the new ones, moves the entry to the most-recently-used end,
\* keeps the number of entries and leaves every other entry in the cache, in
\* its order.
C34_PutOnCachedKeyOverwrites ==
    [][\A content \in CacheContents, audio \in CacheAudios :
        (CachePut(content, audio) /\ Norm(content) \in CacheKeys)
            => \E i \in 1..Len(cache) :
                /\ cache[i].key = Norm(content)
                /\ cache' = RemoveAt(cache, i) \o <<PutEntry(content, audio)>>
                /\ Len(cache') = Len(cache)
                /\ CacheKeys' = CacheKeys
                /\ \A j \in 1..Len(cache) : j # i => \E k \in 1..Len(cache') :
                        cache'[k] = cache[j]]_vars

\* C34 witness: two puts in a row under one key, with different audio, into
\* a full cache of two entries; the other entry is still there and the
\* entry holds the second audio.
C34_OverwrittenInFullCache ==
    /\ max_size = 2
    /\ Len(cache) = 2
    /\ Len(cache_ops) = 2
    /\ cache_ops[1].op = "put" /\ cache_ops[2].op = "put"
    /\ Norm(cache_ops[1].content) = Norm(cache_ops[2].content)
    /\ cache_ops[1].audio # cache_ops[2].audio
    /\ cache[2].key = Norm(cache_ops[1].content)
    /\ cache[2].audio_datas = cache_ops[1].audio.audio_datas
    /\ cache[1].key # cache[2].key

\* C35 (as claimed): for every capacity, 0 included, get_stats returns the
\* size, the capacity and the usage rate without an error, and leaves the
\* entries of the cache and their order as they are.
C35_StatsTotalReadOnly ==
    [][CacheStats
        => /\ UNCHANGED cache
           /\ Head(cache_ops').result # ZeroDivisionError
           /\ Head(cache_ops').result.size = Len(cache)
           /\ Head(cache_ops').result.max_size = max_size]_vars

\* C36 (as claimed): a result in which a frame, or the whole payload, was
\* replaced by a placeholder is a failure: no record of the chat store and
\* no entry of the cache carries a placeholder.
C36_NoPlaceholderPublished ==
    /\ \A i \in 1..Len(chat_messages) :
            \A k \in 1..Len(chat_messages[i].audio_datas) :
                chat_messages[i].audio_datas[k] \notin Placeholders
    /\ \A i \in 1..Len(cache) :
            \A k \in 1..Len(cache[i].audio_datas) :
                cache[i].audio_datas[k] \notin Placeholders

====
